---- MODULE Spec2Model ----
(***************************************************************************)
(* Model of the three programs of the repository:                          *)
(*   "vector"      the internally synchronized class Vector and its driver *)
(*                 (func, main),                                            *)
(*   "unscrambled" printString guarded by the global coutMutex,             *)
(*   "scrambled"   printString without any lock.                            *)
(* Init chooses which program runs.  Every statement that touches shared   *)
(* state (a mutex, vec, std::cout, a thread handle) is one action.         *)
(***************************************************************************)
EXTENDS Integers, Sequences, FiniteSets, TLC

\* Number of worker threads main creates (thr1, thr2, thr3; three messages).
NumThreads == 3

\* Number of iterations of the loop of func.  The source runs 5; the model
\* runs NumIter of them, pushing the values 0 .. NumIter-1.
NumIter == 2

VARIABLES
    prog,       \* which program runs
    nworkers,   \* number of workers the driver starts
    mainpc,     \* position of main
    midx,       \* index of the next thread main creates / joins
    pc,         \* position of each worker thread
    i,          \* func: loop counter i of each worker
    it,         \* print / printString: position of the range-for iterator
                \* (1 while the thread is in neither)
    mut,        \* Vector::mut: 0 = free, t = held by thread t
    coutMutex,  \* coutMutex:   0 = free, t = held by thread t
    vec,        \* Vector::vec
    out,        \* std::cout: the tokens written since the last std::endl
    lastLine,   \* std::cout: the tokens of the last line ended by std::endl
    nlines,     \* std::cout: the number of lines ended by std::endl
    aborted,    \* std::terminate has been called
    \* history variables: they record what happened, no action reads them
    vecBy,      \* for each element of vec, the push_back call <<t, i>> that wrote it
    outBy,      \* for each token of out, the thread that wrote it (0 = main)
    lastLineBy, \* for each token of lastLine and its std::endl, the thread that wrote it
    returned,   \* the push_back calls <<t, i>> that have returned
    lockVec,    \* per thread: vec when its current print took the lock
    lockRet,    \* per thread: returned when its current print took the lock
    line,       \* per thread: the elements its current print has emitted
    lineBy      \* per thread: the push_back calls that wrote those elements

cout == << out, lastLine, nlines, outBy, lastLineBy >>

history == << vecBy, returned, lockVec, lockRet, line, lineBy >>

vars == << prog, nworkers, mainpc, midx, pc, i, it, mut, coutMutex, vec,
           aborted, cout, history >>

\* what an action that only moves a thread leaves alone
config == << prog, nworkers, aborted >>

mainvars == << mainpc, midx >>

shared == << mut, coutMutex, vec, cout, history >>

Threads == 1 .. NumThreads

Programs == {"vector", "unscrambled", "scrambled"}

\* std::vector<std::string> messages = {"ABC", "123", "xyz"}
messages == << <<"A", "B", "C">>, <<"1", "2", "3">>, <<"x", "y", "z">> >>

\* operator<<(int): the decimal digits of a non-negative int
Digit == << "0", "1", "2", "3", "4", "5", "6", "7", "8", "9" >>

RECURSIVE FormatInt(_)
FormatInt(v) ==
    IF v < 10 THEN Digit[v + 1]
    ELSE FormatInt(v \div 10) \o Digit[(v % 10) + 1]

\* mutant: func starts with print, before its first push_back
EntryPcMut(p) ==
    CASE p = "vector"      -> "pr_lock"
      [] p = "unscrambled" -> "ps_lock"
      [] p = "scrambled"   -> "sc_loop"

\* First statement a new thread executes, per program.
EntryPc(p) ==
    CASE p = "vector"      -> "pb_lock"
      [] p = "unscrambled" -> "ps_lock"
      [] p = "scrambled"   -> "sc_loop"

----------------------------------------------------------------------------
(* std::mutex *)

\* mutant: lock() never waits
LockFreeMut(m) == TRUE

\* m.lock() returns only when the mutex is free, and then holds it
LockFree(m) == m = 0

\* the value of a mutex after m.unlock()
Unlocked == 0

----------------------------------------------------------------------------
(* std::cout *)

\* std::cout << tok1 << tok2 ... by thread t
Write(t, toks) ==
    /\ out' = out \o toks
    /\ outBy' = outBy \o [k \in 1 .. Len(toks) |-> t]
    /\ UNCHANGED << lastLine, nlines, lastLineBy >>

\* std::cout << std::endl by thread t: the line written so far is complete
Endl(t) ==
    /\ lastLine' = out
    /\ lastLineBy' = Append(outBy, t)
    /\ nlines' = nlines + 1
    /\ out' = << >>
    /\ outBy' = << >>

----------------------------------------------------------------------------
(* Initial states *)

InitCommon ==
    /\ prog \in Programs
    /\ mainpc = "spawn"
    /\ midx = 1
    /\ pc = [t \in Threads |-> "unborn"]
    /\ i = [t \in Threads |-> 0]
    /\ it = [t \in Threads |-> 1]
    /\ mut = 0
    /\ coutMutex = 0
    /\ vec = << >>
    /\ out = << >>
    /\ lastLine = << >>
    /\ nlines = 0
    /\ aborted = FALSE
    /\ vecBy = << >>
    /\ outBy = << >>
    /\ lastLineBy = << >>
    /\ returned = {}
    /\ lockVec = [t \in Threads |-> << >>]
    /\ lockRet = [t \in Threads |-> {}]
    /\ line = [t \in Threads |-> << >>]
    /\ lineBy = [t \in Threads |-> << >>]

\* The programs as written: main starts all NumThreads workers.
Init == InitCommon /\ nworkers = NumThreads

\* The driver with the number of workers as its input.
InitDriver == InitCommon /\ nworkers \in 0 .. NumThreads

----------------------------------------------------------------------------
(* Vector::push_back, called by func as vec.push_back(i) *)

\* mutant: push_back takes the mutex without waiting for it
PbLockMut(t) ==
    /\ prog = "vector" /\ ~aborted
    /\ pc[t] = "pb_lock"
    /\ mut' = t
    /\ pc' = [pc EXCEPT ![t] = "pb_append"]
    /\ UNCHANGED << config, mainvars, i, it, coutMutex, vec, cout, history >>

\* mut.lock()
PbLock(t) ==
    /\ prog = "vector" /\ ~aborted
    /\ pc[t] = "pb_lock"
    /\ LockFree(mut)
    /\ mut' = t
    /\ pc' = [pc EXCEPT ![t] = "pb_append"]
    /\ UNCHANGED << config, mainvars, i, it, coutMutex, vec, cout, history >>

\* mutant: the element is inserted at the front of vec
PbAppendFrontMut(t) ==
    /\ prog = "vector" /\ ~aborted
    /\ pc[t] = "pb_append"
    /\ vec' = << i[t] >> \o vec
    /\ vecBy' = << << t, i[t] >> >> \o vecBy
    /\ pc' = [pc EXCEPT ![t] = "pb_unlock"]
    /\ UNCHANGED << config, mainvars, i, it, mut, coutMutex, cout, returned,
                    lockVec, lockRet, line, lineBy >>

\* mutant: the write lands on the last element instead of behind it
PbAppendMut(t) ==
    /\ prog = "vector" /\ ~aborted
    /\ pc[t] = "pb_append"
    /\ vec' = IF vec = << >> THEN << i[t] >>
              ELSE [vec EXCEPT ![Len(vec)] = i[t]]
    /\ vecBy' = IF vec = << >> THEN << << t, i[t] >> >>
                ELSE [vecBy EXCEPT ![Len(vec)] = << t, i[t] >>]
    /\ pc' = [pc EXCEPT ![t] = "pb_unlock"]
    /\ UNCHANGED << config, mainvars, i, it, mut, coutMutex, cout, returned,
                    lockVec, lockRet, line, lineBy >>

\* vec.push_back(i)
PbAppend(t) ==
    /\ prog = "vector" /\ ~aborted
    /\ pc[t] = "pb_append"
    /\ vec' = Append(vec, i[t])
    /\ vecBy' = Append(vecBy, << t, i[t] >>)
    /\ pc' = [pc EXCEPT ![t] = "pb_unlock"]
    /\ UNCHANGED << config, mainvars, i, it, mut, coutMutex, cout, returned,
                    lockVec, lockRet, line, lineBy >>

\* mutant: push_back returns without mut.unlock()
PbUnlockMut(t) ==
    /\ prog = "vector" /\ ~aborted
    /\ pc[t] = "pb_unlock"
    /\ returned' = returned \cup { << t, i[t] >> }
    /\ pc' = [pc EXCEPT ![t] = "sleep"]
    /\ UNCHANGED << config, mainvars, i, it, mut, coutMutex, vec, cout, vecBy,
                    lockVec, lockRet, line, lineBy >>

\* mut.unlock() and return to func
PbUnlock(t) ==
    /\ prog = "vector" /\ ~aborted
    /\ pc[t] = "pb_unlock"
    /\ mut' = Unlocked
    /\ returned' = returned \cup { << t, i[t] >> }
    /\ pc' = [pc EXCEPT ![t] = "sleep"]
    /\ UNCHANGED << config, mainvars, i, it, coutMutex, vec, cout, vecBy,
                    lockVec, lockRet, line, lineBy >>

\* mutant: the exception releases mut on its way out (a scoped lock)
PbThrowMut(t) ==
    /\ prog = "vector" /\ ~aborted
    /\ pc[t] = "pb_append"
    /\ pc' = [pc EXCEPT ![t] = "thrown"]
    /\ mut' = Unlocked
    /\ UNCHANGED << config, mainvars, i, it, coutMutex, vec, cout, history >>

\* vec.push_back(i) fails: std::vector throws (std::bad_alloc) and the
\* exception leaves push_back and func; mut.unlock() is not executed
PbThrow(t) ==
    /\ prog = "vector" /\ ~aborted
    /\ pc[t] = "pb_append"
    /\ pc' = [pc EXCEPT ![t] = "thrown"]
    /\ UNCHANGED << config, mainvars, i, it, shared >>

\* an exception left the thread function: std::terminate ends the process
Terminate ==
    /\ ~aborted
    /\ \E t \in Threads : pc[t] = "thrown"
    /\ aborted' = TRUE
    /\ UNCHANGED << prog, nworkers, mainvars, pc, i, it, shared >>

\* func: std::this_thread::sleep_for(50ms) between push_back and print
Sleep(t) ==
    /\ prog = "vector" /\ ~aborted
    /\ pc[t] = "sleep"
    /\ pc' = [pc EXCEPT ![t] = "pr_lock"]
    /\ UNCHANGED << config, mainvars, i, it, shared >>

----------------------------------------------------------------------------
(* Vector::print *)

\* mutant: print does not wait for the mutex
PrLockMut(t) ==
    /\ prog = "vector" /\ ~aborted
    /\ pc[t] = "pr_lock"
    /\ mut' = t
    /\ it' = [it EXCEPT ![t] = 1]
    /\ lockVec' = [lockVec EXCEPT ![t] = vec]
    /\ lockRet' = [lockRet EXCEPT ![t] = returned]
    /\ line' = [line EXCEPT ![t] = << >>]
    /\ lineBy' = [lineBy EXCEPT ![t] = << >>]
    /\ pc' = [pc EXCEPT ![t] = "pr_loop"]
    /\ UNCHANGED << config, mainvars, i, coutMutex, vec, cout, vecBy,
                    returned >>

\* mut.lock(), and the range-for takes vec.begin()
PrLock(t) ==
    /\ prog = "vector" /\ ~aborted
    /\ pc[t] = "pr_lock"
    /\ LockFree(mut)
    /\ mut' = t
    /\ it' = [it EXCEPT ![t] = 1]
    /\ lockVec' = [lockVec EXCEPT ![t] = vec]
    /\ lockRet' = [lockRet EXCEPT ![t] = returned]
    /\ line' = [line EXCEPT ![t] = << >>]
    /\ lineBy' = [lineBy EXCEPT ![t] = << >>]
    /\ pc' = [pc EXCEPT ![t] = "pr_loop"]
    /\ UNCHANGED << config, mainvars, i, coutMutex, vec, cout, vecBy,
                    returned >>

\* mutant: the mutex is released inside the loop
PrElemMut(t) ==
    /\ prog = "vector" /\ ~aborted
    /\ pc[t] = "pr_loop"
    /\ it[t] <= Len(vec)
    /\ Write(t, << FormatInt(vec[it[t]]), ", " >>)
    /\ line' = [line EXCEPT ![t] = Append(@, vec[it[t]])]
    /\ lineBy' = [lineBy EXCEPT ![t] = Append(@, vecBy[it[t]])]
    /\ it' = [it EXCEPT ![t] = @ + 1]
    /\ mut' = Unlocked
    /\ UNCHANGED << config, mainvars, pc, i, coutMutex, vec, vecBy,
                    returned, lockVec, lockRet >>

\* one iteration of for (auto i : vec) std::cout << i << ", ";
\* vec cannot grow while print holds mut, so vec.end() is Len(vec) + 1
PrElem(t) ==
    /\ prog = "vector" /\ ~aborted
    /\ pc[t] = "pr_loop"
    /\ it[t] <= Len(vec)
    /\ Write(t, << FormatInt(vec[it[t]]), ", " >>)
    /\ line' = [line EXCEPT ![t] = Append(@, vec[it[t]])]
    /\ lineBy' = [lineBy EXCEPT ![t] = Append(@, vecBy[it[t]])]
    /\ it' = [it EXCEPT ![t] = @ + 1]
    /\ UNCHANGED << config, mainvars, pc, i, mut, coutMutex, vec, vecBy,
                    returned, lockVec, lockRet >>

\* mutant: the loop may stop one element before vec.end()
PrEndlMut(t) ==
    /\ prog = "vector" /\ ~aborted
    /\ pc[t] = "pr_loop"
    /\ it[t] >= Len(vec)
    /\ Endl(t)
    /\ pc' = [pc EXCEPT ![t] = "pr_unlock"]
    /\ UNCHANGED << config, mainvars, i, it, mut, coutMutex, vec, history >>

\* the iterator reached vec.end(): std::cout << std::endl
PrEndl(t) ==
    /\ prog = "vector" /\ ~aborted
    /\ pc[t] = "pr_loop"
    /\ it[t] > Len(vec)
    /\ Endl(t)
    /\ pc' = [pc EXCEPT ![t] = "pr_unlock"]
    /\ UNCHANGED << config, mainvars, i, it, mut, coutMutex, vec, history >>

\* mutant: the loop test of func is off by one (i <= bound)
PrUnlockMut(t) ==
    /\ prog = "vector" /\ ~aborted
    /\ pc[t] = "pr_unlock"
    /\ mut' = Unlocked
    /\ i' = [i EXCEPT ![t] = @ + 1]
    /\ pc' = [pc EXCEPT ![t] = IF i[t] + 1 <= NumIter THEN "pb_lock" ELSE "done"]
    /\ lockVec' = [lockVec EXCEPT ![t] = << >>]
    /\ lockRet' = [lockRet EXCEPT ![t] = {}]
    /\ line' = [line EXCEPT ![t] = << >>]
    /\ lineBy' = [lineBy EXCEPT ![t] = << >>]
    /\ it' = [it EXCEPT ![t] = 1]
    /\ UNCHANGED << config, mainvars, coutMutex, vec, cout, vecBy, returned >>

\* mut.unlock(), return to func (the iterator is gone), ++i and the loop test
PrUnlock(t) ==
    /\ prog = "vector" /\ ~aborted
    /\ pc[t] = "pr_unlock"
    /\ mut' = Unlocked
    /\ i' = [i EXCEPT ![t] = @ + 1]
    /\ pc' = [pc EXCEPT ![t] = IF i[t] + 1 < NumIter THEN "pb_lock" ELSE "done"]
    /\ lockVec' = [lockVec EXCEPT ![t] = << >>]
    /\ lockRet' = [lockRet EXCEPT ![t] = {}]
    /\ line' = [line EXCEPT ![t] = << >>]
    /\ lineBy' = [lineBy EXCEPT ![t] = << >>]
    /\ it' = [it EXCEPT ![t] = 1]
    /\ UNCHANGED << config, mainvars, coutMutex, vec, cout, vecBy, returned >>

----------------------------------------------------------------------------
(* printString of unscrambled.cpp; thread t runs printString(messages[t]) *)

\* mutant: printString does not wait for coutMutex
PsLockMut(t) ==
    /\ prog = "unscrambled" /\ ~aborted
    /\ pc[t] = "ps_lock"
    /\ coutMutex' = t
    /\ it' = [it EXCEPT ![t] = 1]
    /\ pc' = [pc EXCEPT ![t] = "ps_loop"]
    /\ UNCHANGED << config, mainvars, i, mut, vec, cout, history >>

\* coutMutex.lock(), and the range-for takes text.begin()
PsLock(t) ==
    /\ prog = "unscrambled" /\ ~aborted
    /\ pc[t] = "ps_lock"
    /\ LockFree(coutMutex)
    /\ coutMutex' = t
    /\ it' = [it EXCEPT ![t] = 1]
    /\ pc' = [pc EXCEPT ![t] = "ps_loop"]
    /\ UNCHANGED << config, mainvars, i, mut, vec, cout, history >>

\* one iteration of for (char c : text) { std::cout << c; sleep_for(1ms); }
PsChar(t) ==
    /\ prog = "unscrambled" /\ ~aborted
    /\ pc[t] = "ps_loop"
    /\ it[t] <= Len(messages[t])
    /\ Write(t, << messages[t][it[t]] >>)
    /\ it' = [it EXCEPT ![t] = @ + 1]
    /\ UNCHANGED << config, mainvars, pc, i, mut, coutMutex, vec, history >>

\* mutant: printString returns without coutMutex.unlock()
PsUnlockMut(t) ==
    /\ prog = "unscrambled" /\ ~aborted
    /\ pc[t] = "ps_loop"
    /\ it[t] > Len(messages[t])
    /\ it' = [it EXCEPT ![t] = 1]
    /\ pc' = [pc EXCEPT ![t] = "done"]
    /\ UNCHANGED << config, mainvars, i, mut, coutMutex, vec, cout, history >>

\* the loop is over: coutMutex.unlock() and return
PsUnlock(t) ==
    /\ prog = "unscrambled" /\ ~aborted
    /\ pc[t] = "ps_loop"
    /\ it[t] > Len(messages[t])
    /\ coutMutex' = Unlocked
    /\ it' = [it EXCEPT ![t] = 1]
    /\ pc' = [pc EXCEPT ![t] = "done"]
    /\ UNCHANGED << config, mainvars, i, mut, vec, cout, history >>

----------------------------------------------------------------------------
(* printString of scrambled.cpp *)

\* mutant: the loop walks the string from its end
ScCharMut(t) ==
    /\ prog = "scrambled" /\ ~aborted
    /\ pc[t] = "sc_loop"
    /\ it[t] <= Len(messages[t])
    /\ Write(t, << messages[t][Len(messages[t]) + 1 - it[t]] >>)
    /\ it' = [it EXCEPT ![t] = @ + 1]
    /\ UNCHANGED << config, mainvars, pc, i, mut, coutMutex, vec, history >>

\* one iteration of for (char c : text) { std::cout << c; sleep_for(1ms); }
ScChar(t) ==
    /\ prog = "scrambled" /\ ~aborted
    /\ pc[t] = "sc_loop"
    /\ it[t] <= Len(messages[t])
    /\ Write(t, << messages[t][it[t]] >>)
    /\ it' = [it EXCEPT ![t] = @ + 1]
    /\ UNCHANGED << config, mainvars, pc, i, mut, coutMutex, vec, history >>

\* the loop is over: return
ScReturn(t) ==
    /\ prog = "scrambled" /\ ~aborted
    /\ pc[t] = "sc_loop"
    /\ it[t] > Len(messages[t])
    /\ it' = [it EXCEPT ![t] = 1]
    /\ pc' = [pc EXCEPT ![t] = "done"]
    /\ UNCHANGED << config, mainvars, i, shared >>

----------------------------------------------------------------------------
(* main *)

\* mutant: main creates NumThreads threads whatever the number asked for
MainSpawnMut ==
    /\ ~aborted
    /\ mainpc = "spawn"
    /\ midx <= NumThreads
    /\ pc' = [pc EXCEPT ![midx] = EntryPc(prog)]
    /\ midx' = midx + 1
    /\ UNCHANGED << config, mainpc, i, it, shared >>

\* std::thread thrK(func, std::ref(vec)) / threads.emplace_back(printString, msg)
MainSpawn ==
    /\ ~aborted
    /\ mainpc = "spawn"
    /\ midx <= nworkers
    /\ pc' = [pc EXCEPT ![midx] = EntryPc(prog)]
    /\ midx' = midx + 1
    /\ UNCHANGED << config, mainpc, i, it, shared >>

\* all threads are created: main goes on to the joins
MainSpawned ==
    /\ ~aborted
    /\ mainpc = "spawn"
    /\ midx > nworkers
    /\ mainpc' = "join"
    /\ midx' = 1
    /\ UNCHANGED << config, pc, i, it, shared >>

\* mutant: join() returns without waiting for the thread
MainJoinMut ==
    /\ ~aborted
    /\ mainpc = "join"
    /\ midx <= nworkers
    /\ midx' = midx + 1
    /\ UNCHANGED << config, mainpc, pc, i, it, shared >>

\* thrK.join() / t.join(): returns once the thread has finished
MainJoin ==
    /\ ~aborted
    /\ mainpc = "join"
    /\ midx <= nworkers
    /\ pc[midx] = "done"
    /\ midx' = midx + 1
    /\ UNCHANGED << config, mainpc, pc, i, it, shared >>

\* the Vector program, after the last join: main returns, vec is destroyed
VecMainReturn ==
    /\ ~aborted
    /\ prog = "vector"
    /\ mainpc = "join"
    /\ midx > nworkers
    /\ mainpc' = "returned"
    /\ UNCHANGED << config, midx, pc, i, it, shared >>

\* the printString programs, after the last join:
\* std::cout << std::endl; return 0;
MainEndl ==
    /\ ~aborted
    /\ prog \in {"unscrambled", "scrambled"}
    /\ mainpc = "join"
    /\ midx > nworkers
    /\ Endl(0)
    /\ mainpc' = "returned"
    /\ UNCHANGED << config, midx, pc, i, it, mut, coutMutex, vec, history >>

----------------------------------------------------------------------------
(* Specifications *)

Worker(t) ==
    \/ PbLock(t) \/ PbAppend(t) \/ PbUnlock(t) \/ Sleep(t)
    \/ PrLock(t) \/ PrElem(t) \/ PrEndl(t) \/ PrUnlock(t)
    \/ PsLock(t) \/ PsChar(t) \/ PsUnlock(t)
    \/ ScChar(t) \/ ScReturn(t)

Main == MainSpawn \/ MainSpawned \/ MainJoin \/ VecMainReturn \/ MainEndl

Next == Main \/ \E t \in Threads : Worker(t)

\* The three programs as written, when no allocation fails.
Spec == Init /\ [][Next]_vars

\* The same under a fair scheduler: a thread that can take a step
\* eventually takes one.
LiveSpec ==
    /\ Spec
    /\ WF_vars(Main)
    /\ \A t \in Threads : WF_vars(Worker(t))

\* The driver started with 0 .. NumThreads workers.
DriverSpec == InitDriver /\ [][Next]_vars

\* The programs when vec.push_back may fail to allocate.
NextFault == Next \/ Terminate \/ \E t \in Threads : PbThrow(t)

FaultSpec == Init /\ [][NextFault]_vars

----------------------------------------------------------------------------
(* Vocabulary of the properties *)

IsPrefix(s, u) == Len(s) <= Len(u) /\ s = SubSeq(u, 1, Len(s))

RECURSIVE Concat(_)
Concat(ss) == IF ss = << >> THEN << >> ELSE Head(ss) \o Concat(Tail(ss))

\* thread t is between mut.lock() and mut.unlock() of push_back or print
InCS(t) == pc[t] \in {"pb_append", "pb_unlock", "pr_loop", "pr_unlock"}

\* thread t is inside Vector::print, after mut.lock()
InPrint(t) == pc[t] \in {"pr_loop", "pr_unlock"}

\* thread t is blocked in, or about to call, lock()
AtLock(t) == pc[t] \in {"pb_lock", "pr_lock", "ps_lock"}

AllDone == \A t \in Threads : pc[t] = "done"

\* the push_back calls func makes: worker t pushes k, for k = 0 .. NumIter-1
Calls == Threads \X (0 .. NumIter - 1)

\* the positions of vec written by worker t, in order, as a sequence of values
Proj(t) ==
    LET F[n \in 0 .. Len(vec)] ==
            IF n = 0 THEN << >>
            ELSE IF vecBy[n][1] = t THEN Append(F[n - 1], vec[n]) ELSE F[n - 1]
    IN F[Len(vec)]

\* the tokens print writes for the elements s: each one followed by ", "
Render(s) == Concat([k \in 1 .. Len(s) |-> << FormatInt(s[k]), ", " >>])

\* the sequences of distinct threads
Orders ==
    { ord \in UNION { [1 .. n -> Threads] : n \in 0 .. NumThreads } :
        \A a, b \in DOMAIN ord : a # b => ord[a] # ord[b] }

\* the characters of the printString programs' single line, and their writers
Stream == IF mainpc = "returned" THEN lastLine ELSE out

StreamBy ==
    IF mainpc = "returned" THEN SubSeq(lastLineBy, 1, Len(lastLineBy) - 1)
    ELSE outBy

\* the stream is messages[ord[1]], ..., messages[ord[Len(ord) - 1]] in full,
\* followed by the first n characters of messages[ord[Len(ord)]]
StreamIs(ord, n) ==
    LET len(k) == IF k < Len(ord) THEN Len(messages[ord[k]]) ELSE n
    IN /\ Stream = Concat([k \in 1 .. Len(ord) |->
                              SubSeq(messages[ord[k]], 1, len(k))])
       /\ StreamBy = Concat([k \in 1 .. Len(ord) |->
                              [j \in 1 .. len(k) |-> ord[k]]])

----------------------------------------------------------------------------
(* Properties *)

\* C1: mutual exclusion on the container: at most one worker is between
\* mut.lock() and mut.unlock() of push_back or print, and it is the holder.
C1_MutualExclusion ==
    prog = "vector" =>
        /\ Cardinality({ t \in Threads : InCS(t) }) <= 1
        /\ \A t \in Threads : InCS(t) => mut = t

\* C1 witness: one worker is inside print while another waits in push_back
\* and a third waits in print.
C1_Witness ==
    \E t, u, w \in Threads :
        /\ pc[t] = "pr_loop" /\ it[t] = 2
        /\ pc[u] = "pb_lock"
        /\ pc[w] = "pr_lock"

\* C2: in unscrambled.cpp the characters written are whole messages one
\* after the other, in some order of the workers; only the last one may be
\* unfinished, and then its writer holds coutMutex; a worker in its loop
\* holds coutMutex; when main is done the line is a permutation of the three
\* messages.
C2_NonInterleaving ==
    prog = "unscrambled" =>
        /\ \A t \in Threads : pc[t] = "ps_loop" => coutMutex = t
        /\ \E ord \in Orders :
             \/ ord = << >> /\ Stream = << >> /\ mainpc # "returned"
             \/ /\ ord # << >>
                /\ \E n \in 0 .. Len(messages[ord[Len(ord)]]) :
                     /\ StreamIs(ord, n)
                     /\ n < Len(messages[ord[Len(ord)]])
                            => coutMutex = ord[Len(ord)]
                     /\ mainpc = "returned"
                            => /\ Len(ord) = NumThreads
                               /\ n = Len(messages[ord[Len(ord)]])

\* C2 witness: main is done and the line reads 123xyzABC, an order that is
\* not the order in which the threads were created.
C2_Witness ==
    /\ prog = "unscrambled"
    /\ mainpc = "returned"
    /\ lastLine = << "1", "2", "3", "x", "y", "z", "A", "B", "C" >>

\* C3: no lost updates: every push_back call that has returned wrote exactly
\* one element of vec, holding the value it was called with; once all workers
\* have finished, vec has one element per call.
C3_NoLostUpdates ==
    prog = "vector" =>
        /\ \A c \in returned :
             Cardinality({ p \in 1 .. Len(vec) : vecBy[p] = c }) = 1
             /\ \A p \in 1 .. Len(vec) : vecBy[p] = c => vec[p] = c[2]
        /\ AllDone =>
             /\ returned = Calls
             /\ Len(vec) = Cardinality(Calls)

\* C3 witness: all workers have finished and the last element of vec was not
\* written by the last call of the last thread created.
C3_Witness ==
    /\ prog = "vector"
    /\ AllDone
    /\ vecBy[Len(vecBy)] = << 1, NumIter - 1 >>
    /\ vecBy[1] = << NumThreads, 0 >>

\* C4: per-worker insertion order: at the end vec has NumThreads * NumIter
\* elements, and the elements worker t appended read 0, 1, ..., NumIter-1 in
\* vec; before the end they read 0, 1, ... up to its last push_back.
C4_PerWorkerOrder ==
    prog = "vector" =>
        /\ \A t \in Threads :
             /\ Len(Proj(t)) <= NumIter
             /\ Proj(t) = [k \in 1 .. Len(Proj(t)) |-> k - 1]
        /\ AllDone =>
             /\ Len(vec) = NumThreads * NumIter
             /\ \A t \in Threads : Proj(t) = [k \in 1 .. NumIter |-> k - 1]

\* C4 witness: the run is over and the workers' elements are interleaved:
\* vec starts 0, 0 and ends with the last value written twice in a row.
C4_Witness ==
    /\ prog = "vector"
    /\ mainpc = "returned"
    /\ vecBy[1][1] # vecBy[2][1]
    /\ vecBy[Len(vec)][1] # vecBy[Len(vec) - 1][1]
    /\ vec[Len(vec) - 1] = NumIter - 1

\* C5: no torn reads: what a print call has emitted is a prefix of vec as it
\* was when the call took the lock, element for element written by push_back
\* calls that had returned by then; at the end of the line it is all of it.
C5_NoTornReads ==
    prog = "vector" =>
        \A t \in Threads : InPrint(t) =>
            /\ IsPrefix(line[t], lockVec[t])
            /\ pc[t] = "pr_loop" => out = Render(line[t])
            /\ lineBy[t] = SubSeq(vecBy, 1, Len(lineBy[t]))
            /\ \A k \in 1 .. Len(lineBy[t]) : lineBy[t][k] \in lockRet[t]
            /\ pc[t] = "pr_unlock" =>
                 /\ line[t] = lockVec[t]
                 /\ lastLine = Render(lockVec[t])
                 /\ { lineBy[t][k] : k \in 1 .. Len(lineBy[t]) } = lockRet[t]

\* C5 witness: a print has emitted its whole line of three elements while
\* the two other workers wait to push their next element.
C5_Witness ==
    \E t \in Threads :
        /\ pc[t] = "pr_unlock"
        /\ Len(line[t]) = NumThreads
        /\ \A u \in Threads \ {t} : pc[u] = "pb_lock" /\ i[u] = 1

\* C6: emission under the lock: from the first read to the end of line print
\* holds mut, vec does not change, and the line on std::cout, tokens and
\* end-of-line, is written by that one call.
C6_EmissionUnderLock ==
    prog = "vector" =>
        /\ \A t \in Threads : InPrint(t) =>
             /\ mut = t
             /\ vec = lockVec[t]
             /\ pc[t] = "pr_loop" =>
                  /\ outBy = [k \in 1 .. Len(outBy) |-> t]
                  /\ Len(out) = 2 * Len(line[t])
             /\ pc[t] = "pr_unlock" =>
                  /\ lastLineBy = [k \in 1 .. Len(lastLineBy) |-> t]
                  /\ Len(lastLine) = 2 * Len(line[t])
                  /\ out = << >>
        /\ (\A t \in Threads : pc[t] # "pr_loop") => out = << >>
        /\ \A a, b \in 1 .. Len(lastLineBy) : lastLineBy[a] = lastLineBy[b]

\* C6 witness: a print is in the middle of a line of at least two elements
\* while a worker waits in push_back.
C6_Witness ==
    \E t, u \in Threads :
        /\ pc[t] = "pr_loop"
        /\ Len(out) = 2
        /\ Len(vec) >= 2
        /\ pc[u] = "pb_lock"

\* thread t holds the mutex of its program
Holds(t) == mut = t \/ coutMutex = t

\* the number of characters of all messages
TotalChars ==
    LET F[n \in 0 .. Len(messages)] ==
            IF n = 0 THEN 0 ELSE F[n - 1] + Len(messages[n])
    IN F[Len(messages)]

\* C7: termination and deadlock freedom under a fair scheduler: main
\* eventually returns with every worker finished, a worker at lock()
\* eventually holds the mutex, and as long as main has not returned some
\* thread can take a step.
C7_Termination ==
    /\ <>(mainpc = "returned" /\ AllDone)
    /\ \A t \in Threads : AtLock(t) ~> Holds(t)
    /\ [](mainpc # "returned" => ENABLED Next)

\* C7 witness: two workers wait at lock() while the third holds the mutex,
\* and main waits in join().
C7_Witness ==
    /\ mainpc = "join"
    /\ pc[1] = "pb_lock" /\ i[1] = 1
    /\ pc[2] = "pr_lock"
    /\ mut = 3

\* C8: join barrier: main is past join k only when worker k has finished;
\* when main has returned every worker has finished, in unscrambled.cpp the
\* only line holds the workers' characters and ends with main's end-of-line,
\* and in the container program every push_back and every print has
\* completed.
C8_JoinBarrier ==
    /\ mainpc = "join" => \A t \in 1 .. midx - 1 : pc[t] = "done"
    /\ mainpc = "returned" =>
         /\ AllDone
         /\ prog = "unscrambled" =>
              /\ nlines = 1 /\ out = << >>
              /\ Len(lastLine) = TotalChars
              /\ Len(lastLineBy) = TotalChars + 1
              /\ \A k \in 1 .. Len(lastLineBy) :
                    lastLineBy[k] = 0 <=> k = TotalChars + 1
              /\ coutMutex = 0
         /\ prog = "vector" =>
              /\ returned = Calls
              /\ Len(vec) = Cardinality(Calls)
              /\ nlines = Cardinality(Calls)
              /\ out = << >>
              /\ mut = 0

\* C8 witness: main waits in its first join while the last thread it
\* created has already finished.
C8_Witness ==
    /\ mainpc = "join"
    /\ midx = 1
    /\ pc[1] # "done"
    /\ pc[NumThreads] = "done"

\* C9 (the claim as stated): whenever push_back has been left, by return or
\* by an exception, the caller does not hold mut.
C9_ReleasedOnEveryExit ==
    \A t \in Threads : pc[t] \in {"sleep", "thrown"} => mut # t

Acts(t) == pc'[t] # pc[t] \/ it'[t] # it[t] \/ i'[t] # i[t]

\* a mutex is free or held by one thread, and its holder is inside the
\* critical section it guards
MutexStates ==
    /\ mut \in 0 .. NumThreads
    /\ coutMutex \in 0 .. NumThreads
    /\ \A t \in Threads : mut = t => InCS(t)
    /\ \A t \in Threads : coutMutex = t => pc[t] = "ps_loop"

\* a step that changes mutex m (old value m, new value n): lock() by a thread
\* at one of the statements lockAt while m is free, or unlock() by the holder
MutexStep(m, n, lockAt, unlockAt) ==
    n # m =>
        \/ /\ m = 0 /\ n \in Threads
           /\ pc[n] \in lockAt /\ Acts(n)
        \/ /\ n = 0 /\ m \in Threads
           /\ pc[m] \in unlockAt /\ Acts(m)

\* a step of a worker that reads or writes vec or writes to std::cout is a
\* step of the holder of the mutex of its program
WorkerAccess ==
    /\ vec' # vec => mut \in Threads /\ Acts(mut) /\ vecBy'[Len(vecBy')][1] = mut
    /\ \A t \in Threads : line'[t] # line[t] /\ line'[t] # << >> => mut = t
    /\ \A t \in Threads :
         (Acts(t) /\ cout' # cout) =>
             IF prog = "vector" THEN mut = t ELSE coutMutex = t

\* the mutexes change by lock() and unlock() only
MutexSteps ==
    /\ MutexStep(mut, mut', {"pb_lock", "pr_lock"}, {"pb_unlock", "pr_unlock"})
    /\ MutexStep(coutMutex, coutMutex', {"ps_lock"}, {"ps_loop"})

\* every step that writes to std::cout is taken while the mutex is held
CoutUnderMutex ==
    cout' # cout =>
        IF prog = "vector" THEN mut \in Threads ELSE coutMutex \in Threads

\* the one write to std::cout by a thread that is no worker: main's
\* end-of-line in unscrambled.cpp, with coutMutex free and all workers done
CoutByMain ==
    (cout' # cout /\ \A t \in Threads : ~Acts(t)) =>
        /\ prog = "unscrambled" /\ mainpc' = "returned"
        /\ AllDone /\ coutMutex = 0

Guarded == prog \in {"vector", "unscrambled"}

\* C11 (the claim as stated): the lock discipline, and every step that
\* writes to the character stream or touches vec is taken while its mutex is
\* held, by the holder.
C11_LockDisciplineAsStated ==
    [][Guarded => (MutexSteps /\ WorkerAccess /\ CoutUnderMutex)]_vars

\* C11 (amended): each mutex is free or held by one worker that is inside its
\* critical section; lock() succeeds only on a free mutex, unlock() is
\* executed only by the holder; vec and the character stream are read and
\* written by workers only while they hold the mutex.  The one access
\* without the mutex is main's end-of-line in unscrambled.cpp, written after
\* every worker has finished.
C11_LockDiscipline ==
    /\ [](Guarded => MutexStates)
    /\ [][Guarded => (MutexSteps /\ WorkerAccess /\ CoutByMain)]_vars

\* C11 witness: main of unscrambled.cpp has written its end-of-line, with
\* coutMutex free, after the workers wrote xyz first.
C11_Witness ==
    /\ prog = "unscrambled"
    /\ mainpc = "returned"
    /\ coutMutex = 0
    /\ lastLineBy[1] = 3
    /\ lastLineBy[Len(lastLineBy)] = 0

\* a step from a state in which thread t has left push_back by an exception:
\* t stays where it is and keeps mut, no worker gets past lock(), and main
\* does not return
LockedOutStep(t) ==
    /\ pc'[t] = "thrown"
    /\ mut' = t
    /\ \A u \in Threads : AtLock(u) => pc'[u] = pc[u]
    /\ mainpc' # "returned"

LockedOutSteps ==
    \A t \in Threads : pc[t] = "thrown" => LockedOutStep(t)

\* C12: a fault between lock() and unlock() locks everybody out for good:
\* once vec.push_back has thrown inside push_back the caller holds mut in
\* every later state, no other worker ever gets past mut.lock(), and main
\* never gets past its joins.  (push_back is the only critical section with
\* a statement that can throw.)
C12_PermanentLockOut ==
    /\ [](\A t \in Threads : pc[t] = "thrown" =>
              /\ mut = t
              /\ mainpc # "returned"
              /\ \A u \in Threads \ {t} : ~InCS(u))
    /\ [][LockedOutSteps]_vars

\* C12 witness: a worker's second push_back has thrown while another worker
\* waits at lock() and main waits in join(); the process is still running.
C12_Witness ==
    /\ ~aborted
    /\ mainpc = "join"
    /\ \E t, u \in Threads :
         /\ pc[t] = "thrown" /\ i[t] = 1
         /\ pc[u] = "pr_lock"

\* the characters of the stream written by worker t, in the order written
StreamOf(t) ==
    LET F[n \in 0 .. Len(Stream)] ==
            IF n = 0 THEN << >>
            ELSE IF StreamBy[n] = t THEN Append(F[n - 1], Stream[n])
                 ELSE F[n - 1]
    IN F[Len(Stream)]

\* the stream holds a character of worker u between two characters of
\* another worker t
Interleaved ==
    \E a, b, c \in 1 .. Len(StreamBy) :
        /\ a < b /\ b < c
        /\ StreamBy[a] = StreamBy[c]
        /\ StreamBy[b] # StreamBy[a]

\* C13: in scrambled.cpp each worker's characters appear in the order of its
\* string, whatever is written between them, and when main writes its
\* end-of-line all the characters of all strings have been written, each
\* string once.
C13_ScrambledOrder ==
    prog = "scrambled" =>
        /\ \A t \in Threads : IsPrefix(StreamOf(t), messages[t])
        /\ \A k \in 1 .. Len(StreamBy) : StreamBy[k] \in Threads
        /\ mainpc = "returned" =>
             /\ nlines = 1 /\ out = << >>
             /\ Len(lastLine) = TotalChars
             /\ lastLineBy[Len(lastLineBy)] = 0
             /\ \A t \in Threads : StreamOf(t) = messages[t]

\* C13 witness: scrambled.cpp has finished and wrote A1xB2yC3z: the strings
\* are interleaved character by character.
C13_Witness ==
    /\ prog = "scrambled"
    /\ mainpc = "returned"
    /\ Interleaved
    /\ lastLine = << "A", "1", "x", "B", "2", "y", "C", "3", "z" >>

\* the positions of the line of t's current print that hold the element of
\* its latest push_back
OwnPos(t) == { p \in 1 .. Len(lineBy[t]) : lineBy[t][p] = << t, i[t] >> }

\* C14: push_back and the print that follows it are two critical sections:
\* between them the worker does not hold mut and its push_back has returned,
\* and the line it then prints holds its own element followed only by
\* elements other workers appended after it (the witness shows that there
\* can be such elements).
C14_NotAtomic ==
    prog = "vector" =>
        \A t \in Threads :
            /\ pc[t] \in {"sleep", "pr_lock"} =>
                 /\ mut # t
                 /\ << t, i[t] >> \in returned
            /\ pc[t] = "pr_unlock" =>
                 /\ Cardinality(OwnPos(t)) = 1
                 /\ \A p \in OwnPos(t) :
                      \A q \in p + 1 .. Len(lineBy[t]) : lineBy[t][q][1] # t

\* C14 witness: the line a worker prints after its push_back(1) ends with two
\* elements that other workers appended after that push_back.
C14_Witness ==
    \E t \in Threads :
        /\ pc[t] = "pr_unlock"
        /\ i[t] = 1
        /\ \E p \in OwnPos(t) : Len(lineBy[t]) = p + 2

\* a step of the Vector program that ends a line: the line it ends starts
\* with the line ended before it
LineGrows ==
    (prog = "vector" /\ nlines' # nlines) =>
        /\ nlines' = nlines + 1
        /\ IsPrefix(lastLine, lastLine')
        /\ Len(lastLine') >= Len(lastLine)

\* C15: printed snapshots grow monotonically: every line print ends has the
\* line printed before it as a prefix, so of any two lines the earlier is a
\* prefix of the later and the line lengths never decrease.
C15_MonotoneSnapshots == [][LineGrows]_vars

\* C15 witness: three lines are printed and the third, like the first, shows
\* one element of each worker, while a fourth print is on its way with more.
C15_Witness ==
    /\ prog = "vector"
    /\ nlines = NumThreads
    /\ lastLine = Render([k \in 1 .. NumThreads |-> 0])
    /\ Len(out) > Len(lastLine)

\* the values of the elements of the line of t's current print that worker u
\* appended, in the order of the line
LineOf(t, u) ==
    LET F[n \in 0 .. Len(line[t])] ==
            IF n = 0 THEN << >>
            ELSE IF lineBy[t][n][1] = u THEN Append(F[n - 1], line[t][n])
                 ELSE F[n - 1]
    IN F[Len(line[t])]

\* C16: read your own writes, with bounds: the line a worker prints in
\* iteration i holds exactly its own values 0 .. i and at most NumIter
\* elements of each other worker, so its length lies between i + 1 and
\* i + 1 + (NumThreads - 1) * NumIter; the first line of the run has between
\* 1 and NumThreads elements.
C16_ReadYourWrites ==
    prog = "vector" =>
        /\ \A t \in Threads : pc[t] = "pr_unlock" =>
             /\ LineOf(t, t) = [k \in 1 .. i[t] + 1 |-> k - 1]
             /\ \A u \in Threads \ {t} : Len(LineOf(t, u)) <= NumIter
             /\ Len(line[t]) >= i[t] + 1
             /\ Len(line[t]) <= i[t] + 1 + (NumThreads - 1) * NumIter
             /\ lastLine = Render(line[t])
        /\ nlines = 1 =>
             /\ Len(lastLine) >= 2
             /\ Len(lastLine) <= 2 * NumThreads

\* C16 witness: a worker's first print comes after the other workers have
\* appended everything: the line has the largest length the bound allows.
C16_Witness ==
    \E t \in Threads :
        /\ pc[t] = "pr_unlock"
        /\ i[t] = 0
        /\ Len(line[t]) = 1 + (NumThreads - 1) * NumIter

\* C17: the last line shows the complete container: when all workers of the
\* Vector program have finished, one line per print call has been printed
\* (NumThreads * NumIter of them) and the last one renders all the
\* NumThreads * NumIter elements of vec; never are more lines printed.
C17_LastLineComplete ==
    prog = "vector" =>
        /\ nlines <= NumThreads * NumIter
        /\ AllDone =>
             /\ nlines = NumThreads * NumIter
             /\ Len(vec) = NumThreads * NumIter
             /\ lastLine = Render(vec)
             /\ out = << >>

\* C17 witness: the run is over, and the worker that printed the last line
\* is not the one that appended the last element.
C17_Witness ==
    /\ prog = "vector"
    /\ mainpc = "returned"
    /\ nlines = NumThreads * NumIter
    /\ lastLineBy[1] # vecBy[Len(vecBy)][1]

====
